---- MODULE Spec2Model ----
(***************************************************************************)
(* Model of orbit_predictor.predictors.keplerian and                       *)
(* orbit_predictor.predictors.numerical: the KeplerianPredictor and        *)
(* J2Predictor constructors, the Sun-synchronous solver, the constellation *)
(* generator and the two _propagate_eci methods.                           *)
(*                                                                         *)
(* Numbers.  A Python number is a record [k, n, d]:                        *)
(*   k = "none"     the value None                                         *)
(*   k = "real"     the real number n/d (lowest terms, d > 0)              *)
(*   k = "acosdeg"  the angle degrees(arccos(n/d)), kept symbolic          *)
(*   k = "acos"     the angle arccos(n/d) in radians, kept symbolic        *)
(*   k = "complex"  a number with a non-zero imaginary part                *)
(* Arithmetic is exact rational arithmetic; roots are taken exactly, and   *)
(* the inputs are restricted to those whose roots are rational.            *)
(***************************************************************************)
EXTENDS Integers, Sequences, FiniteSets, TLC

VARIABLES
    today,    \* the date dt.datetime.today().date() returns now (day number)
    heap,     \* the predictor objects constructed so far, by identity 1..Len
    made,     \* for each object, the elements its constructor stored
    last,     \* the most recent constructor or solver call and its outcome
    gens,     \* the generator objects of sun_sync_plane_constellation
    threads,  \* the _propagate_eci calls in progress, one per thread
    hist      \* the _propagate_eci calls that have returned

vars == <<today, heap, made, last, gens, threads, hist>>

----------------------------------------------------------------------------
(* Bounds of the model *)

MaxObjects == 1      \* objects the constructor specification may create
MaxSats == 4         \* largest num_satellites given to the generator
MaxDay == 1          \* days the clock may advance past day 0
MaxCalls == 3        \* distinct _propagate_eci results recorded in one run
MaxDt == 60          \* seconds between a target epoch and the reference epoch

----------------------------------------------------------------------------
(* Exact rational arithmetic *)

Abs(i) == IF i < 0 THEN -i ELSE i

RECURSIVE Gcd(_, _)
Gcd(a, b) == IF b = 0 THEN a ELSE Gcd(b, a % b)

R(n, d) ==
    LET s == IF d < 0 THEN -1 ELSE 1
        g == Gcd(Abs(n), Abs(d))
    IN  [k |-> "real", n |-> (s * n) \div g, d |-> (s * d) \div g]

Q(i) == R(i, 1)
None == [k |-> "none", n |-> 0, d |-> 1]
Complex == [k |-> "complex", n |-> 0, d |-> 1]
AcosDeg(x) == [k |-> "acosdeg", n |-> x.n, d |-> x.d]
Acos(x) == [k |-> "acos", n |-> x.n, d |-> x.d]

IsNone(v) == v.k = "none"
IsReal(v) == v.k = "real"
IsComplex(v) == v.k = "complex"

RAdd(a, b) == R(a.n * b.d + b.n * a.d, a.d * b.d)
RNeg(a) == R(-a.n, a.d)
RSub(a, b) == RAdd(a, RNeg(b))
RMul(a, b) == R(a.n * b.n, a.d * b.d)
RDiv(a, b) == R(a.n * b.d, a.d * b.n)
RLt(a, b) == a.n * b.d < b.n * a.d
RLe(a, b) == a.n * b.d <= b.n * a.d
RGe(a, b) == RLe(b, a)
RSq(a) == RMul(a, a)
RAbs(a) == R(Abs(a.n), a.d)
RZero(a) == a.n = 0

(* Exact integer roots, where they exist *)
IsSquareInt(i) == \E r \in 0..i : r * r = i
SqrtInt(i) == CHOOSE r \in 0..i : r * r = i
Pow7(r) == r * r * r * r * r * r * r
IsSeventhInt(i) == \E r \in 0..4 : Pow7(r) = i
SeventhRootInt(i) == CHOOSE r \in 0..4 : Pow7(r) = i

IsSquare(a) == a.n >= 0 /\ IsSquareInt(a.n) /\ IsSquareInt(a.d)
RSqrt(a) == R(SqrtInt(a.n), SqrtInt(a.d))
IsSeventh(a) == a.n >= 0 /\ IsSeventhInt(a.n) /\ IsSeventhInt(a.d)

----------------------------------------------------------------------------
(* Module constants of numerical.py, in model units: lengths in Earth      *)
(* radii and times in units that make MU_E = 1; J2 and OMEGA are rounded   *)
(* so that the Sun-synchronous solutions used below stay rational.         *)

OMEGA == R(3, 16000)
MU_E == Q(1)
R_E_KM == Q(1)
J2 == R(1, 1000)

(* math.pi, a rational approximation as every float is *)
PI == R(22, 7)

----------------------------------------------------------------------------
(* math and numpy functions, as the two files use them *)

(* math.radians / math.degrees: multiplication by pi/180 and its inverse *)
radians(x) ==
    IF x.k = "acosdeg" THEN Acos(R(x.n, x.d))
    ELSE RMul(x, RDiv(PI, Q(180)))

degrees(x) ==
    IF x.k = "acos" THEN AcosDeg(R(x.n, x.d))
    ELSE RMul(x, RDiv(Q(180), PI))

(* cos of an angle in radians: the symbolic arccos, or one of the angles   *)
(* 0, 60, 120, 180 degrees whose cosine is rational                        *)
cos(x) ==
    IF x.k = "acos" THEN R(x.n, x.d)
    ELSE LET deg == degrees(x).n
         IN  CASE deg = 0 -> Q(1)
               [] deg = 60 -> R(1, 2)
               [] deg = 120 -> R(-1, 2)
               [] deg = 180 -> Q(-1)

(* sin(x) ** 2 *)
sin2(x) == RSub(Q(1), RSq(cos(x)))

(* Python float ** (7 / 2): a negative base gives a complex number *)
PyPow72(b) ==
    IF RLt(b, Q(0)) THEN Complex
    ELSE LET r == RSqrt(b) IN R(Pow7(r.n), Pow7(r.d))

(* b ** (2 / 7) for b >= 0 *)
Pow27(b) == RSq(R(SeventhRootInt(b.n), SeventhRootInt(b.d)))

----------------------------------------------------------------------------
(* Predictor objects *)

Elements(cls, sma, ecc, inc, raan, argp, ta, epoch) ==
    [cls |-> cls, sma |-> sma, ecc |-> ecc, inc |-> inc, raan |-> raan,
     argp |-> argp, ta |-> ta, epoch |-> epoch]

NoObject == Elements("none", None, None, None, None, None, None, 0)

Raised(e) == [exc |-> e, obj |-> NoObject]
Returned(o) == [exc |-> "", obj |-> o]

(* The values the test ecc >= 1.0 of __init__ can take.  Ordering a numpy  *)
(* complex number against a float is decided by the real part or refused,  *)
(* depending on the numpy build.                                           *)
GtOne(ecc) ==
    IF IsReal(ecc) THEN {IF RLt(Q(1), ecc) THEN "true" ELSE "false"}
    ELSE {"true", "false", "TypeError"}

NeverGeOne(ecc) == {"false"}

GeOne(ecc) ==
    IF IsReal(ecc) THEN {IF RGe(ecc, Q(1)) THEN "true" ELSE "false"}
    ELSE {"true", "false", "TypeError"}

(* KeplerianPredictor.__init__, which J2Predictor inherits: the outcomes   *)
(* of cls(sma, ecc, inc, raan, argp, ta, epoch)                            *)
InitOutcomes(cls, sma, ecc, inc, raan, argp, ta, epoch) ==
    { IF t = "true" THEN Raised("NotImplementedError")
      ELSE IF t = "TypeError" THEN Raised("TypeError")
      ELSE Returned(Elements(cls, sma, ecc, inc, raan, argp, ta, epoch))
      : t \in GeOne(ecc) }

----------------------------------------------------------------------------
(* J2Predictor.sun_synchronous *)

SecondsPerDay == 86400
SecondsPerHour == 3600

(* datetime(date.year, date.month, date.day, *float_to_hms(ltan_h)), in    *)
(* seconds since midnight of day 0                                         *)
EpochOf(date, ltan_h) == date * SecondsPerDay + ltan_h * SecondsPerHour

(* utils.raan_from_ltan: the right ascension of the mean Sun at the epoch  *)
(* (about one degree a day) plus 15 degrees for each hour of LTAN past     *)
(* noon, in [0, 360)                                                       *)
raan_from_ltan(epoch, ltan_h) ==
    Q((epoch \div SecondsPerDay + 15 * (ltan_h - 12)) % 360)

Solved(sma, ecc, inc_deg) ==
    [exc |-> "", sma |-> sma, ecc |-> ecc, inc_deg |-> inc_deg]
SolveRaised(e) == [exc |-> e, sma |-> None, ecc |-> None, inc_deg |-> None]

(* 3 * R_E_KM ** 2 * J2 * np.sqrt(MU_E) *)
SunSyncK == RMul(RMul(RMul(Q(3), RSq(R_E_KM)), J2), RSqrt(MU_E))

(* (1 - ecc ** 2) ** 2 *)
OneMinusEcc2Sq(ecc) == RSq(RSub(Q(1), RSq(ecc)))

(* "Normal case, solve for inclination".  With a negative sma the Python   *)
(* power is complex, np.arccos of it raises nothing, and math.degrees      *)
(* either refuses the complex number (TypeError) or drops its imaginary    *)
(* part, leaving an inclination that came out of complex arithmetic.       *)
SolveInclination(alt_km, ecc) ==
    LET sma == RAdd(R_E_KM, alt_km)
        pw == PyPow72(sma)
    IN  IF IsComplex(pw)
        THEN {SolveRaised("TypeError"), Solved(sma, ecc, Complex)}
        ELSE LET x == RDiv(RMul(RMul(RMul(Q(-2), pw), OMEGA), OneMinusEcc2Sq(ecc)),
                           SunSyncK)
             IN  IF RLt(Q(1), RAbs(x))
                 THEN {SolveRaised("InvalidOrbitError")}
                 ELSE {Solved(sma, ecc, AcosDeg(x))}

(* The argument of the inner np.sqrt of the eccentricity branch *)
EccRadicand(sma, inc_deg) ==
    RDiv(RMul(RMul(Q(-1), SunSyncK), cos(radians(inc_deg))),
         RMul(RMul(Q(2), OMEGA), PyPow72(sma)))

(* "Not so normal case, solve for eccentricity".  A complex denominator    *)
(* makes the whole expression complex and no floating-point error is       *)
(* raised; a zero denominator gives an infinity or 0/0, and the square     *)
(* roots that follow raise.                                                *)
SolveEccentricity(alt_km, inc_deg) ==
    LET sma == RAdd(R_E_KM, alt_km)
        pw == PyPow72(sma)
    IN  IF IsComplex(pw) THEN {Solved(sma, Complex, inc_deg)}
        ELSE IF RZero(pw) THEN {SolveRaised("InvalidOrbitError")}
        ELSE LET X == EccRadicand(sma, inc_deg)
             IN  IF RLt(X, Q(0)) THEN {SolveRaised("InvalidOrbitError")}
                 ELSE LET y == RSub(Q(1), RSqrt(X))
                      IN  IF RLt(y, Q(0)) THEN {SolveRaised("InvalidOrbitError")}
                          ELSE {Solved(sma, RSqrt(y), inc_deg)}

(* The base of the power of the altitude branch *)
SmaBase(ecc, inc_deg) ==
    RDiv(RMul(RNeg(cos(radians(inc_deg))), SunSyncK),
         RMul(RMul(Q(2), OMEGA), OneMinusEcc2Sq(ecc)))

(* "Rare case, solve for altitude" *)
SolveAltitude(ecc, inc_deg) ==
    LET b == SmaBase(ecc, inc_deg)
    IN  IF RLt(b, Q(0)) THEN {SolveRaised("InvalidOrbitError")}
        ELSE {Solved(Pow27(b), ecc, inc_deg)}

(* The try block of sun_synchronous *)
SolveOutcomes(alt_km, ecc, inc_deg) ==
    IF ~IsNone(alt_km) /\ ~IsNone(ecc) THEN SolveInclination(alt_km, ecc)
    ELSE IF ~IsNone(alt_km) /\ ~IsNone(inc_deg) THEN SolveEccentricity(alt_km, inc_deg)
    ELSE IF ~IsNone(ecc) /\ ~IsNone(inc_deg) THEN SolveAltitude(ecc, inc_deg)
    ELSE {SolveRaised("ValueError")}

(* date = dt.datetime.today().date() when date is None *)
NoDate == -1
ResolveDate(date, now) == IF date = NoDate THEN now ELSE date

(* J2Predictor.sun_synchronous, called when the clock shows day now *)
SunSyncOutcomes(cls, alt_km, ecc, inc_deg, ltan_h, date, ta_deg, now) ==
    LET d == ResolveDate(date, now)
        epoch == EpochOf(d, ltan_h)
        raan == raan_from_ltan(epoch, ltan_h)
    IN  UNION { IF s.exc # "" THEN {Raised(s.exc)}
                ELSE InitOutcomes(cls, s.sma, s.ecc, s.inc_deg, raan, Q(0), ta_deg, epoch)
                : s \in SolveOutcomes(alt_km, ecc, inc_deg) }

----------------------------------------------------------------------------
(* KeplerianPredictor.from_tle, from the osculating elements rv2coe        *)
(* returns (angles in radians) at the TLE epoch.  With ecc = 1 the         *)
(* division p / (1 - ecc ** 2) raises ZeroDivisionError on a Python float  *)
(* and gives an infinity on a numpy float, which __init__ then refuses.    *)
FromTleOutcomes(cls, p, ecc, inc, raan, argp, ta, epoch) ==
    IF RZero(RSub(Q(1), RSq(ecc)))
    THEN {Raised("ZeroDivisionError")} \cup
         {Raised("NotImplementedError") : t \in GeOne(ecc) \cap {"true"}}
    ELSE InitOutcomes(cls, RDiv(p, RSub(Q(1), RSq(ecc))), ecc, degrees(inc),
                      degrees(raan), degrees(argp), degrees(ta), epoch)

----------------------------------------------------------------------------
(* The arguments the calls are made with *)

Classes == {"KeplerianPredictor", "J2Predictor"}

CtorSma == {Q(-1), Q(0), Q(1), Q(4)}
CtorEcc == {R(-3, 5), Q(0), R(3, 5), Q(1), R(3, 2)}
CtorInc == {Q(0), Q(60)}

(* Altitudes (sma = -1, 0, 1, 4), eccentricities and inclinations given to *)
(* the solver; the two symbolic inclinations are the Sun-synchronous ones  *)
(* of sma = 1 with ecc = 0 and ecc = 3/5.                                  *)
SolverAlt == {None, Q(-2), Q(-1), Q(0), Q(3)}
SolverEcc == {None, Q(0), R(3, 5), Q(1), R(3, 2)}
SolverInc == {None, Q(60), Q(120), AcosDeg(R(-1, 8)), AcosDeg(R(-32, 625))}
SolverDate == {NoDate, 0}
Noon == 12

(* The roots the taken branch extracts are rational (or never reached) *)
Exact(alt_km, ecc, inc_deg) ==
    LET sma == RAdd(R_E_KM, alt_km)
    IN  IF ~IsNone(alt_km) /\ ~IsNone(ecc)
        THEN RLt(sma, Q(0)) \/ IsSquare(sma)
        ELSE IF ~IsNone(alt_km) /\ ~IsNone(inc_deg)
        THEN \/ RLe(sma, Q(0))
             \/ /\ IsSquare(sma)
                /\ LET X == EccRadicand(sma, inc_deg)
                   IN  \/ RLt(X, Q(0))
                       \/ /\ IsSquare(X)
                          /\ LET y == RSub(Q(1), RSqrt(X))
                             IN  RLt(y, Q(0)) \/ IsSquare(y)
        ELSE IF ~IsNone(ecc) /\ ~IsNone(inc_deg)
        THEN /\ ~RZero(RSub(Q(1), RSq(ecc)))
             /\ LET b == SmaBase(ecc, inc_deg)
                IN  RLt(b, Q(0)) \/ IsSeventh(b)
        ELSE TRUE

SolverArgs ==
    {a \in SolverAlt \X SolverEcc \X SolverInc : Exact(a[1], a[2], a[3])}

(* Elements rv2coe may return: p > 0, ecc >= 0 *)
TleP == {Q(1), R(16, 25)}
TleEcc == {Q(0), R(3, 5), Q(1), R(3, 2)}

----------------------------------------------------------------------------
(* Propagation *)

(* angles.ta_to_M.  At the apsides (ta = 0 or pi) the eccentric anomaly is *)
(* ta and its sine is 0; on a circular orbit the three anomalies coincide. *)
ta_to_M(ta, ecc) ==
    CASE RZero(ta) -> ta
      [] ta = PI -> ta
      [] RZero(ecc) -> ta

(* angles.M_to_ta: the true anomaly whose mean anomaly is M, kept symbolic *)
M_to_ta(M, ecc) == [k |-> "M_to_ta", M |-> M, ecc |-> ecc]

(* keplerian.coe2rv: position and velocity, a function of its arguments,   *)
(* kept symbolic                                                           *)
coe2rv(mu, p, ecc, inc, raan, argp, ta) ==
    [mu |-> mu, p |-> p, ecc |-> ecc, inc |-> inc, raan |-> raan, argp |-> argp,
     ta |-> ta]

(* sqrt(MU_E / sma ** 3) *)
MeanMotion(sma) == RSqrt(RDiv(MU_E, RMul(sma, RSq(sma))))

(* keplerian.kepler *)
kepler(argp, delta_t_sec, ecc, inc, p, raan, sma, ta) ==
    LET M_0 == ta_to_M(ta, ecc)
        n == MeanMotion(sma)
        M == RAdd(M_0, RMul(n, Q(delta_t_sec)))
    IN  coe2rv(MU_E, p, ecc, inc, raan, argp, M_to_ta(M, ecc))

(* (3 * n * R_E_KM ** 2 * J2) / (d * p ** 2) *)
J2Factor(n, p, d) ==
    RDiv(RMul(RMul(RMul(Q(3), n), RSq(R_E_KM)), J2), RMul(Q(d), RSq(p)))

(* numerical.pkepler with the drifts taken over abs(delta_t_sec) *)
pkeplerAbs(argp, delta_t_sec, ecc, inc, p, raan, sma, ta) ==
    LET n == MeanMotion(sma)
        M_0 == ta_to_M(ta, ecc)
        t == Q(Abs(delta_t_sec))
        delta_raan == RMul(RMul(RNeg(J2Factor(n, p, 2)), cos(inc)), t)
        delta_argp ==
            RMul(RMul(J2Factor(n, p, 4), RSub(Q(4), RMul(Q(5), sin2(inc)))), t)
        M0_dot ==
            RMul(RMul(J2Factor(n, p, 4), RSub(Q(2), RMul(Q(3), sin2(inc)))),
                 RSqrt(RSub(Q(1), RSq(ecc))))
        M == RAdd(M_0, RMul(RAdd(n, M0_dot), t))
    IN  coe2rv(MU_E, p, ecc, inc, RAdd(raan, delta_raan), RAdd(argp, delta_argp),
               M_to_ta(M, ecc))

(* numerical.pkepler *)
pkepler(argp, delta_t_sec, ecc, inc, p, raan, sma, ta) ==
    LET n == MeanMotion(sma)
        M_0 == ta_to_M(ta, ecc)
        delta_raan ==
            RMul(RMul(RNeg(J2Factor(n, p, 2)), cos(inc)), Q(delta_t_sec))
        delta_argp ==
            RMul(RMul(J2Factor(n, p, 4), RSub(Q(4), RMul(Q(5), sin2(inc)))),
                 Q(delta_t_sec))
        M0_dot ==
            RMul(RMul(J2Factor(n, p, 4), RSub(Q(2), RMul(Q(3), sin2(inc)))),
                 RSqrt(RSub(Q(1), RSq(ecc))))
        M_dot == RAdd(n, M0_dot)
        M == RAdd(M_0, RMul(M_dot, Q(delta_t_sec)))
    IN  coe2rv(MU_E, p, ecc, inc, RAdd(raan, delta_raan), RAdd(argp, delta_argp),
               M_to_ta(M, ecc))

NoState == coe2rv(None, None, None, None, None, None, None)

IdleThread ==
    [pc |-> "idle", self |-> 0, when_utc |-> 0, sma |-> None, ecc |-> None,
     p |-> None, inc |-> None, raan |-> None, argp |-> None, ta |-> None,
     out |-> NoState]

----------------------------------------------------------------------------
(* State *)

GenIds == {1, 2}
ThreadIds == {1, 2}

NoGen ==
    [status |-> "none", n |-> 0, alt_km |-> None, ecc |-> None, inc |-> None,
     date |-> NoDate, i |-> 0, out |-> <<>>, exc |-> ""]

NoCall ==
    [op |-> "none", cls |-> "none", sma |-> None, alt_km |-> None, ecc |-> None,
     inc |-> None, date |-> NoDate, exc |-> "", ref |-> 0]

Init ==
    /\ today = 0
    /\ heap = <<>>
    /\ made = <<>>
    /\ last = NoCall
    /\ gens = [g \in GenIds |-> NoGen]
    /\ threads = [t \in ThreadIds |-> IdleThread]
    /\ hist = {}

(* The call op with outcome o: a returned object is allocated on the heap  *)
Finish(op, cls, sma, alt_km, ecc, inc, date, o) ==
    /\ last' = [op |-> op, cls |-> cls, sma |-> sma, alt_km |-> alt_km,
                ecc |-> ecc, inc |-> inc, date |-> date, exc |-> o.exc,
                ref |-> IF o.exc = "" THEN Len(heap) + 1 ELSE 0]
    /\ heap' = IF o.exc = "" THEN Append(heap, o.obj) ELSE heap
    /\ made' = IF o.exc = "" THEN Append(made, o.obj) ELSE made

(* KeplerianPredictor(...) or J2Predictor(...) *)
Construct(cls, sma, ecc, inc) ==
    /\ Len(heap) < MaxObjects
    /\ \E o \in InitOutcomes(cls, sma, ecc, inc, Q(0), Q(0), Q(0), 0) :
           Finish("init", cls, sma, None, ecc, inc, NoDate, o)
    /\ UNCHANGED <<today, gens, threads, hist>>

(* J2Predictor.sun_synchronous(alt_km=, ecc=, inc_deg=, date=) *)
CallSunSynchronous(alt_km, ecc, inc_deg, date) ==
    /\ Len(heap) < MaxObjects
    /\ \E o \in SunSyncOutcomes("J2Predictor", alt_km, ecc, inc_deg, Noon, date,
                                Q(0), today) :
           Finish("sun_synchronous", "J2Predictor", None, alt_km, ecc, inc_deg, date, o)
    /\ UNCHANGED <<today, gens, threads, hist>>

(* cls.from_tle(sate_id, source) *)
CallFromTle(cls, p, ecc) ==
    /\ Len(heap) < MaxObjects
    /\ \E o \in FromTleOutcomes(cls, p, ecc, Q(0), Q(0), Q(0), Q(0), 0) :
           Finish("from_tle", cls, None, None, ecc, Q(0), NoDate, o)
    /\ UNCHANGED <<today, gens, threads, hist>>

NextCtor ==
    \/ \E cls \in Classes, sma \in CtorSma, ecc \in CtorEcc, inc \in CtorInc :
          Construct(cls, sma, ecc, inc)
    \/ \E a \in SolverArgs : CallSunSynchronous(a[1], a[2], a[3], 0)
    \/ \E cls \in Classes, p \in TleP, ecc \in TleEcc : CallFromTle(cls, p, ecc)

SpecCtor == Init /\ [][NextCtor]_vars

----------------------------------------------------------------------------
(* sun_sync_plane_constellation *)

(* np.linspace(start, stop, num, endpoint=True)[i] *)
LinspaceEndpoint(start, stop, num, i) ==
    IF num = 1 THEN start
    ELSE RAdd(start, RMul(Q(i), RDiv(RSub(stop, start), Q(num - 1))))

(* np.linspace(start, stop, num, endpoint=False)[i]: start + i * step,     *)
(* with step = (stop - start) / num                                        *)
Linspace(start, stop, num, i) ==
    RAdd(start, RMul(Q(i), RDiv(RSub(stop, start), Q(num))))

(* Calling the generator function runs none of its body: it returns a      *)
(* generator object holding the arguments.                                 *)
NewConstellation(g, num_satellites, alt_km, ecc, inc_deg, date) ==
    /\ gens[g].status = "none"
    /\ \A h \in GenIds : h < g => gens[h].status # "none"
    /\ gens' = [gens EXCEPT ![g] =
                   [status |-> "suspended", n |-> num_satellites, alt_km |-> alt_km,
                    ecc |-> ecc, inc |-> inc_deg, date |-> date, i |-> 0,
                    out |-> <<>>, exc |-> ""]]
    /\ UNCHANGED <<today, heap, made, last, threads, hist>>

(* next(g): the loop body runs once, up to the yield; sun_synchronous is   *)
(* called now, with the date argument as the caller gave it.  An exception *)
(* ends the generator; so does the end of the linspace.                    *)
GenNext(g) ==
    LET G == gens[g]
    IN  /\ G.status = "suspended"
        /\ IF G.i = G.n
           THEN /\ gens' = [gens EXCEPT ![g].status = "done"]
                /\ UNCHANGED <<heap, made>>
           ELSE \E o \in SunSyncOutcomes("J2Predictor", G.alt_km, G.ecc, G.inc, Noon,
                                         G.date, Linspace(Q(0), Q(360), G.n, G.i),
                                         today) :
                    IF o.exc = ""
                    THEN /\ heap' = Append(heap, o.obj)
                         /\ made' = Append(made, o.obj)
                         /\ gens' = [gens EXCEPT ![g].i = G.i + 1,
                                                 ![g].out = Append(G.out, Len(heap) + 1)]
                    ELSE /\ gens' = [gens EXCEPT ![g].status = "raised",
                                                 ![g].exc = o.exc]
                         /\ UNCHANGED <<heap, made>>
        /\ UNCHANGED <<today, last, threads, hist>>

(* Midnight passes *)
Tick ==
    /\ today < MaxDay
    /\ today' = today + 1
    /\ UNCHANGED <<heap, made, last, gens, threads, hist>>

(* Arguments given to the generator: two feasible requests, an infeasible  *)
(* one and one with no parameter at all                                    *)
GenArgs ==
    { <<Q(0), Q(0), None>>, <<None, R(3, 5), AcosDeg(R(-32, 625))>>,
      <<Q(3), Q(0), None>>, <<None, None, None>> }

(* The first call takes any of the arguments; a later call repeats them *)
NextGen ==
    \/ \E n \in 1..MaxSats, a \in GenArgs, date \in SolverDate :
          NewConstellation(1, n, a[1], a[2], a[3], date)
    \/ \E g \in GenIds \ {1} :
          NewConstellation(g, gens[1].n, gens[1].alt_km, gens[1].ecc, gens[1].inc,
                           gens[1].date)
    \/ \E g \in GenIds : GenNext(g)
    \/ Tick

SpecGen == Init /\ [][NextGen]_vars

----------------------------------------------------------------------------
(* _propagate_eci *)

(* The predictor as a call that wrote the drifted node and perigee back    *)
(* would leave it                                                          *)
SelfWithDriftStored(obj, loc) ==
    [obj EXCEPT !.raan = degrees(loc.out.raan), !.argp = degrees(loc.out.argp)]

(* The predictor as a call that moved its epoch to the target would leave  *)
(* it                                                                      *)
SelfWithEpochAdvanced(obj, loc) == [obj EXCEPT !.epoch = loc.when_utc]

(* The predictor after a _propagate_eci call: neither method assigns to an *)
(* attribute of self                                                       *)
SelfAfterPropagate(obj, loc) == obj

(* _propagate_eci(when_utc), "Orbit parameters": the attributes are read   *)
(* into locals                                                             *)
Enter(t, self, when_utc) ==
    /\ threads[t].pc = "idle"
    /\ Cardinality(hist) < MaxCalls
    /\ LET o == heap[self]
       IN  threads' = [threads EXCEPT ![t] =
               [pc |-> "loaded", self |-> self, when_utc |-> when_utc,
                sma |-> o.sma, ecc |-> o.ecc,
                p |-> RMul(o.sma, RSub(Q(1), RSq(o.ecc))),
                inc |-> radians(o.inc), raan |-> radians(o.raan),
                argp |-> radians(o.argp), ta |-> radians(o.ta), out |-> NoState]]
    /\ UNCHANGED <<today, heap, made, last, gens, hist>>

(* delta_t_sec from the stored epoch, then "Propagate": kepler for a       *)
(* KeplerianPredictor, pkepler for a J2Predictor                           *)
Propagate(t) ==
    LET loc == threads[t]
        delta_t_sec == loc.when_utc - heap[loc.self].epoch
    IN  /\ loc.pc = "loaded"
        /\ threads' = [threads EXCEPT ![t].pc = "propagated", ![t].out =
               IF heap[loc.self].cls = "J2Predictor"
               THEN pkepler(loc.argp, delta_t_sec, loc.ecc, loc.inc, loc.p,
                            loc.raan, loc.sma, loc.ta)
               ELSE kepler(loc.argp, delta_t_sec, loc.ecc, loc.inc, loc.p,
                           loc.raan, loc.sma, loc.ta)]
        /\ UNCHANGED <<today, heap, made, last, gens, hist>>

(* return tuple(position_eci), tuple(velocity_eci) *)
Return(t) ==
    LET loc == threads[t]
    IN  /\ loc.pc = "propagated"
        /\ hist' = hist \cup
               {[self |-> loc.self, when_utc |-> loc.when_utc, out |-> loc.out]}
        /\ heap' = [heap EXCEPT ![loc.self] = SelfAfterPropagate(heap[loc.self], loc)]
        /\ threads' = [threads EXCEPT ![t] = IdleThread]
        /\ UNCHANGED <<today, made, last, gens>>

(* The predictors the propagation specification starts with: well          *)
(* specified elliptical orbits whose roots are rational, built by the      *)
(* constructor and by the Sun-synchronous solver                           *)
PropPredictors ==
    { o.obj : o \in
        InitOutcomes("KeplerianPredictor", Q(1), Q(0), Q(60), Q(0), Q(0), Q(0), 0)
        \cup InitOutcomes("KeplerianPredictor", Q(4), R(3, 5), Q(120), Q(60), Q(0),
                          Q(180), 0)
        \cup InitOutcomes("J2Predictor", Q(1), Q(0), Q(60), Q(60), Q(0), Q(180), 0)
        \cup InitOutcomes("J2Predictor", Q(4), R(3, 5), Q(120), Q(0), Q(60), Q(0), 0)
        \cup SunSyncOutcomes("J2Predictor", Q(0), Q(0), None, Noon, 0, Q(0), 0) }

InitProp ==
    /\ today = 0
    /\ \E a \in PropPredictors, b \in PropPredictors :
           /\ heap = <<a, b>>
           /\ made = <<a, b>>
    /\ last = NoCall
    /\ gens = [g \in GenIds |-> NoGen]
    /\ threads = [t \in ThreadIds |-> IdleThread]
    /\ hist = {}

(* Target epochs: MaxDt seconds before the reference epoch, at it, after   *)
Offsets == {-MaxDt, 0, MaxDt}

NextProp ==
    \/ \E t \in ThreadIds, self \in DOMAIN heap, d \in Offsets :
          Enter(t, self, heap[self].epoch + d)
    \/ \E t \in ThreadIds : Propagate(t)
    \/ \E t \in ThreadIds : Return(t)

SpecProp == InitProp /\ [][NextProp]_vars

----------------------------------------------------------------------------
(* Claims about construction, under SpecCtor *)

(* How many of alt_km, ecc, inc_deg the last call supplied *)
Supplied(c) ==
    (IF IsNone(c.alt_km) THEN 0 ELSE 1) + (IF IsNone(c.ecc) THEN 0 ELSE 1)
        + (IF IsNone(c.inc) THEN 0 ELSE 1)

(* C1: sun_synchronous called with a number of supplied parameters other   *)
(* than exactly two (zero, one or three) raises the invalid-parameters     *)
(* error (ValueError) and returns no predictor.                            *)
C1_ArityOtherThanTwoRaises ==
    (last.op = "sun_synchronous" /\ Supplied(last) # 2)
        => (last.exc = "ValueError" /\ last.ref = 0)

(* C2: constructing a KeplerianPredictor or a J2Predictor with ecc >= 1.0  *)
(* fails with NotImplementedError at construction, whatever the other      *)
(* arguments are, and no predictor object comes to exist.                  *)
C2_EccGeOneRefused ==
    [][(last'.op = "init" /\ RGe(last'.ecc, Q(1)))
          => (last'.exc = "NotImplementedError" /\ last'.ref = 0 /\ heap' = heap)]_vars

C2_Witness ==
    /\ last.op = "init" /\ last.cls = "J2Predictor"
    /\ last.ecc = R(3, 2) /\ last.sma = Q(4) /\ last.inc = Q(60)
    /\ last.exc = "NotImplementedError"

(* C3, as claimed: every predictor that exists holds 0 <= ecc < 1 and      *)
(* sma > 0.                                                                *)
C3_ElementsInRange ==
    \A i \in DOMAIN heap :
        /\ IsReal(heap[i].ecc) /\ RLe(Q(0), heap[i].ecc) /\ RLt(heap[i].ecc, Q(1))
        /\ IsReal(heap[i].sma) /\ RLt(Q(0), heap[i].sma)

(* C3, amended: every predictor that exists, on any construction path,     *)
(* holds an ecc the constructor's test ecc >= 1.0 found false, so a real   *)
(* ecc is < 1; only this upper bound is enforced.                          *)
C3_EccBelowOne ==
    \A i \in DOMAIN heap : IsReal(heap[i].ecc) => RLt(heap[i].ecc, Q(1))

(* A predictor with a negative eccentricity and a negative semi-major axis *)
C3_Witness ==
    \E i \in DOMAIN heap :
        /\ heap[i].ecc = R(-3, 5) /\ heap[i].sma = Q(-1)
        /\ last.op = "init" /\ last.ref = i

(* The closed-form solve of the branch taken leaves the reals: a negative  *)
(* base of a fractional power, a negative radicand, or |x| > 1 in arccos   *)
DomainViolation(alt_km, ecc, inc_deg) ==
    LET sma == RAdd(R_E_KM, alt_km)
    IN  IF ~IsNone(alt_km) /\ ~IsNone(ecc)
        THEN \/ RLt(sma, Q(0))
             \/ RLt(Q(1), RAbs(RDiv(RMul(RMul(RMul(Q(-2), PyPow72(sma)), OMEGA),
                                         OneMinusEcc2Sq(ecc)), SunSyncK)))
        ELSE IF ~IsNone(alt_km) /\ ~IsNone(inc_deg)
        THEN \/ RLt(sma, Q(0))
             \/ /\ RLt(Q(0), sma)
                /\ LET X == EccRadicand(sma, inc_deg)
                   IN  RLt(X, Q(0)) \/ RLt(Q(1), X)
        ELSE IF ~IsNone(ecc) /\ ~IsNone(inc_deg)
        THEN RLt(SmaBase(ecc, inc_deg), Q(0))
        ELSE FALSE

(* C4: sun_synchronous with exactly two parameters whose closed-form solve *)
(* leaves the domain of arccos, sqrt or the power raises InvalidOrbitError *)
(* and nothing else, and no predictor it returns holds a non-real sma, ecc *)
(* or inc.                                                                 *)
C4_DomainViolationIsInvalidOrbit ==
    (last.op = "sun_synchronous" /\ Supplied(last) = 2)
        => /\ DomainViolation(last.alt_km, last.ecc, last.inc)
                  => last.exc = "InvalidOrbitError"
           /\ last.ref # 0
                  => /\ ~IsComplex(heap[last.ref].sma)
                     /\ ~IsComplex(heap[last.ref].ecc)
                     /\ ~IsComplex(heap[last.ref].inc)

----------------------------------------------------------------------------
(* Claims about the constellation generator, under SpecGen *)

(* The request is feasible: sun_synchronous raises nothing for it *)
Feasible(G) ==
    \A o \in SunSyncOutcomes("J2Predictor", G.alt_km, G.ecc, G.inc, Noon, 0, Q(0), 0) :
        o.exc = ""

(* C5: for feasible parameters and N >= 1 the generator never raises, its  *)
(* i-th predictor (i = 0..N-1) has true anomaly i * 360 / N degrees, every *)
(* true anomaly lies in [0, 360), and once exhausted it has yielded        *)
(* exactly N predictors.                                                   *)
C5_EvenlySpaced ==
    \A g \in GenIds :
        LET G == gens[g]
        IN  (G.status # "none" /\ Feasible(G)) =>
                /\ G.status # "raised"
                /\ Len(G.out) = G.i
                /\ G.i <= G.n
                /\ G.status = "done" => Len(G.out) = G.n
                /\ \A j \in 1..Len(G.out) :
                       LET ta == heap[G.out[j]].ta
                       IN  /\ ta = R((j - 1) * 360, G.n)
                           /\ RLe(Q(0), ta) /\ RLt(ta, Q(360))

C5_Witness ==
    \E g \in GenIds :
        /\ gens[g].status = "done" /\ gens[g].n = 4
        /\ heap[gens[g].out[1]].ta = Q(0)
        /\ heap[gens[g].out[2]].ta = Q(90)
        /\ heap[gens[g].out[3]].ta = Q(180)
        /\ heap[gens[g].out[4]].ta = Q(270)

(* C6: all predictors one generator has yielded share sma, ecc, inc, RAAN  *)
(* and epoch, whatever time passes between the yields and also when the    *)
(* date argument is omitted.                                               *)
C6_SamePlaneAndEpoch ==
    \A g \in GenIds : \A j, k \in 1..Len(gens[g].out) :
        LET a == heap[gens[g].out[j]]
            b == heap[gens[g].out[k]]
        IN  /\ a.sma = b.sma /\ a.ecc = b.ecc /\ a.inc = b.inc
            /\ a.raan = b.raan /\ a.epoch = b.epoch

SameArguments(G, H) ==
    /\ G.n = H.n /\ G.alt_km = H.alt_km /\ G.ecc = H.ecc /\ G.inc = H.inc
    /\ G.date = H.date

(* C7: two calls with the same arguments, both consumed to the end, yield  *)
(* sequences of the same length of distinct predictor objects whose        *)
(* elements are equal position by position, whenever each is consumed.     *)
C7_TwiceYieldsEqual ==
    \A g, h \in GenIds :
        (g # h /\ gens[g].status = "done" /\ gens[h].status = "done"
              /\ SameArguments(gens[g], gens[h])) =>
            /\ Len(gens[g].out) = Len(gens[h].out)
            /\ \A j \in 1..Len(gens[g].out) :
                   /\ gens[g].out[j] # gens[h].out[j]
                   /\ heap[gens[g].out[j]] = heap[gens[h].out[j]]

----------------------------------------------------------------------------
(* Claims about propagation, under SpecProp *)

(* C8: after any sequence of _propagate_eci calls, forward or backward in  *)
(* time, each predictor's stored sma, ecc, inc, raan, argp, ta and epoch   *)
(* are the values given at construction.                                   *)
C8_ElementsNeverWritten == heap = made

(* A J2 propagation has returned a drifted node for a predictor *)
C8_Witness ==
    \E r \in hist :
        /\ made[r.self].cls = "J2Predictor"
        /\ r.when_utc < made[r.self].epoch
        /\ r.out.raan # radians(made[r.self].raan)
        /\ r.out.argp # radians(made[r.self].argp)

(* What _propagate_eci(when_utc) returns for the elements obj *)
StateAt(obj, when_utc) ==
    LET p == RMul(obj.sma, RSub(Q(1), RSq(obj.ecc)))
        dt == when_utc - obj.epoch
    IN  IF obj.cls = "J2Predictor"
        THEN pkepler(radians(obj.argp), dt, obj.ecc, radians(obj.inc), p,
                     radians(obj.raan), obj.sma, radians(obj.ta))
        ELSE kepler(radians(obj.argp), dt, obj.ecc, radians(obj.inc), p,
                    radians(obj.raan), obj.sma, radians(obj.ta))

(* C9: two _propagate_eci calls with the same target epoch on the same     *)
(* predictor return the same position and velocity, whatever calls for     *)
(* other epochs or other predictors run before, between or concurrently;   *)
(* the result depends only on the construction-time elements and the       *)
(* target epoch.                                                           *)
C9_ReferentiallyTransparent ==
    /\ \A r, q \in hist :
           (r.self = q.self /\ r.when_utc = q.when_utc) => r.out = q.out
    /\ \A r \in hist : r.out = StateAt(made[r.self], r.when_utc)
    /\ \A t \in ThreadIds : \A r \in hist :
           (threads[t].pc = "propagated" /\ threads[t].self = r.self
                /\ threads[t].when_utc = r.when_utc) => threads[t].out = r.out

(* A call is about to return what an earlier call for the same epoch on    *)
(* the same J2 predictor returned, after a call for another epoch on it    *)
(* and while the other thread is inside a call on the other predictor      *)
C9_Witness ==
    \E r, q \in hist : \E t, u \in ThreadIds :
        /\ r.self = q.self /\ r.when_utc # q.when_utc
        /\ made[r.self].cls = "J2Predictor"
        /\ r.when_utc # made[r.self].epoch
        /\ threads[t].pc = "propagated" /\ threads[t].self = r.self
        /\ threads[t].when_utc = r.when_utc /\ threads[t].out = r.out
        /\ threads[u].pc = "loaded" /\ threads[u].self # r.self

(* The secular rates of section 4.4 for the elements obj *)
RaanRate(obj) ==
    LET p == RMul(obj.sma, RSub(Q(1), RSq(obj.ecc)))
    IN  RNeg(RMul(J2Factor(MeanMotion(obj.sma), p, 2), cos(radians(obj.inc))))

ArgpRate(obj) ==
    LET p == RMul(obj.sma, RSub(Q(1), RSq(obj.ecc)))
    IN  RMul(J2Factor(MeanMotion(obj.sma), p, 4),
             RSub(Q(4), RMul(Q(5), sin2(radians(obj.inc)))))

MeanAnomalyRate(obj) ==
    LET p == RMul(obj.sma, RSub(Q(1), RSq(obj.ecc)))
    IN  RAdd(MeanMotion(obj.sma),
             RMul(RMul(J2Factor(MeanMotion(obj.sma), p, 4),
                       RSub(Q(2), RMul(Q(3), sin2(radians(obj.inc))))),
                  RSqrt(RSub(Q(1), RSq(obj.ecc)))))

(* C10: a J2 propagation over the signed time dt hands coe2rv the stored   *)
(* p, ecc and inc, raan = raan0 + raanRate * dt, argp = argp0 + argpRate * *)
(* dt and the true anomaly of M = M0 + (n + M0dot) * dt, the rates not     *)
(* depending on dt; at dt = 0 nothing drifts, and the drifts over -dt are  *)
(* the negated drifts over dt.                                             *)
C10_LinearSecularDrift ==
    \A r \in hist :
        LET obj == made[r.self]
            dt == r.when_utc - obj.epoch
            raan0 == radians(obj.raan)
            argp0 == radians(obj.argp)
            M0 == ta_to_M(radians(obj.ta), obj.ecc)
        IN  obj.cls = "J2Predictor" =>
                /\ r.out.p = RMul(obj.sma, RSub(Q(1), RSq(obj.ecc)))
                /\ r.out.ecc = obj.ecc
                /\ r.out.inc = radians(obj.inc)
                /\ r.out.raan = RAdd(raan0, RMul(RaanRate(obj), Q(dt)))
                /\ r.out.argp = RAdd(argp0, RMul(ArgpRate(obj), Q(dt)))
                /\ r.out.ta.M = RAdd(M0, RMul(MeanAnomalyRate(obj), Q(dt)))
                /\ dt = 0 => /\ r.out.raan = raan0
                             /\ r.out.argp = argp0
                             /\ r.out.ta.M = M0
                /\ \A q \in hist :
                       (q.self = r.self /\ q.when_utc - obj.epoch = -dt) =>
                           /\ RSub(q.out.raan, raan0) = RNeg(RSub(r.out.raan, raan0))
                           /\ RSub(q.out.argp, argp0) = RNeg(RSub(r.out.argp, argp0))
                           /\ RSub(q.out.ta.M, M0) = RNeg(RSub(r.out.ta.M, M0))

(* The same J2 predictor has been propagated forward, backward and to its  *)
(* own epoch, and its node drifted                                         *)
C10_Witness ==
    \E r, q, z \in hist :
        /\ made[r.self].cls = "J2Predictor"
        /\ r.self = q.self /\ r.self = z.self
        /\ r.when_utc = made[r.self].epoch + MaxDt
        /\ q.when_utc = made[r.self].epoch - MaxDt
        /\ z.when_utc = made[r.self].epoch
        /\ r.out.raan # q.out.raan

====
